---- MODULE Spec2Model ----
(***************************************************************************)
(* create_kml_file (src/create_kml_file/src/main.rs): a survey traverse is *)
(* read from two text files per parcel, the bearings are turned into       *)
(* azimuths, the legs are walked geodesically, the closure is validated    *)
(* and the boundaries are written as KML documents.                        *)
(*                                                                         *)
(* Representation of the program's values:                                 *)
(*   - a string is a sequence of one-character strings;                    *)
(*   - an angle of a bearing or an azimuth is a whole number of arc        *)
(*     seconds (3600 to the degree);                                       *)
(*   - a coordinate is a whole number of 1e-8 degrees, so the closure      *)
(*     tolerance 0.000001 degrees is 100 units;                            *)
(*   - a distance handed to the walker is a whole number of 1e-4 metres,   *)
(*     so a foot (0.3048 m) is 3048 units.                                 *)
(***************************************************************************)
EXTENDS Integers, Sequences, FiniteSets, TLC

VARIABLES pc, data, times, iter, parts, line, result, bearing, az,
          start, az_dist, bounds, env, parcel_num, parcel_bounds, docs,
          exit_code, trace

vars == <<pc, data, times, iter, parts, line, result, bearing, az,
          start, az_dist, bounds, env, parcel_num, parcel_bounds, docs,
          exit_code, trace>>

\* Value of a variable the specification at hand does not use.
Unused == "unused"

(***************************************************************************)
(* Option and Result values.                                               *)
(***************************************************************************)
Some(v) == [some |-> TRUE, val |-> v]

None == [some |-> FALSE]

Ok(v) == [ok |-> TRUE, val |-> v]

Err(e) == [ok |-> FALSE, err |-> e]

(***************************************************************************)
(* Characters and strings.                                                 *)
(***************************************************************************)
\* char::is_ascii_whitespace: space, tab, line feed, form feed, carriage return.
IsAsciiWhitespace(c) == c \in {" ", "\t", "\n", "\f", "\r"}

\* s.chars().take_while(|c| c.is_ascii_whitespace() == ws).count()
TakeWhileCount(s, ws) ==
    CHOOSE k \in 0..Len(s) :
        /\ \A i \in 1..k : IsAsciiWhitespace(s[i]) = ws
        /\ (k = Len(s) \/ IsAsciiWhitespace(s[k + 1]) # ws)

\* &s[k..]
From(s, k) == SubSeq(s, k + 1, Len(s))

\* &s[..k]
Upto(s, k) == SubSeq(s, 1, k)

\* str::trim on the characters the model draws (all of them ASCII).
Trim(s) ==
    LET lead == TakeWhileCount(s, TRUE)
        rest == From(s, lead)
        keep == IF rest = <<>> THEN 0
                ELSE CHOOSE k \in 1..Len(rest) :
                        /\ ~IsAsciiWhitespace(rest[k])
                        /\ \A i \in (k + 1)..Len(rest) : IsAsciiWhitespace(rest[i])
    IN  Upto(rest, keep)

(***************************************************************************)
(* split_whitespace_n: the SplitWhitespaceN iterator.                      *)
(***************************************************************************)
\* SplitWhitespaceN::new
SplitWhitespaceN_new(d, t) ==
    [remaining |-> From(d, TakeWhileCount(d, TRUE)), times |-> t]

\* The word the iterator cuts off the front of `remaining`.
CutWord(remaining) == Upto(remaining, TakeWhileCount(remaining, FALSE))

\* CutRest with a single whitespace character skipped behind the word
\* instead of the whole run.
CutRest_OneSpace(remaining) ==
    LET afterWord == From(remaining, TakeWhileCount(remaining, FALSE))
    IN  From(afterWord, IF afterWord = <<>> THEN 0 ELSE 1)

\* `remaining` after the word and the whitespace run behind it are cut off.
CutRest(remaining) ==
    LET afterWord == From(remaining, TakeWhileCount(remaining, FALSE))
    IN  From(afterWord, TakeWhileCount(afterWord, TRUE))

\* SplitWhitespaceN::next: the item it returns and the iterator it leaves.
SplitWhitespaceN_next(self) ==
    IF self.times > 0
    THEN IF self.times - 1 = 0
         THEN [item |-> Some(self.remaining),
               self |-> [remaining |-> self.remaining, times |-> 0]]
         ELSE [item |-> Some(CutWord(self.remaining)),
               self |-> [remaining |-> CutRest(self.remaining),
                         times |-> self.times - 1]]
    ELSE [item |-> None, self |-> self]

\* Iterator::collect: every item until next() returns None.
RECURSIVE Collect(_)
Collect(self) ==
    LET r == SplitWhitespaceN_next(self)
    IN  IF r.item.some THEN <<r.item.val>> \o Collect(r.self) ELSE <<>>

\* Itertools::collect_tuple into a tuple of k: Some only for exactly k items.
CollectTuple(self, k) ==
    LET items == Collect(self)
    IN  IF Len(items) = k THEN Some(items) ELSE None

\* split_whitespace_n(d, t)
split_whitespace_n(d, t) == SplitWhitespaceN_new(d, t)

(***************************************************************************)
(* Specification SpecTok: one use of split_whitespace_n, the way the test  *)
(* split_whitespace drives it (create the iterator, call next() until it   *)
(* returns None, keep the items).                                          *)
(***************************************************************************)
MaxLen == 6

MaxTimes == 3

TokAlphabet == {"a", "b", " ", "\t"}

StringsUpTo(alphabet, n) == UNION {[1..k -> alphabet] : k \in 0..n}

OtherVarsTok ==
    <<line, result, bearing, az, start, az_dist, bounds, env, parcel_num,
      parcel_bounds, docs, exit_code, trace>>

InitTok ==
    /\ pc = "call"
    /\ data \in StringsUpTo(TokAlphabet, MaxLen)
    /\ times \in 0..MaxTimes
    /\ iter = Unused
    /\ parts = <<>>
    /\ line = Unused /\ result = Unused /\ bearing = Unused /\ az = Unused
    /\ start = Unused /\ az_dist = Unused /\ bounds = Unused /\ env = Unused
    /\ parcel_num = Unused /\ parcel_bounds = Unused /\ docs = Unused
    /\ exit_code = Unused /\ trace = Unused

\* let it = split_whitespace_n(&data, times);
TokNew ==
    /\ pc = "call"
    /\ iter' = split_whitespace_n(data, times)
    /\ pc' = "iterating"
    /\ UNCHANGED <<data, times, parts>>
    /\ UNCHANGED OtherVarsTok

\* it.next(), with Some(item) pushed to the collection.
TokNext ==
    /\ pc = "iterating"
    /\ LET r == SplitWhitespaceN_next(iter)
       IN  /\ iter' = r.self
           /\ IF r.item.some
              THEN parts' = Append(parts, r.item.val) /\ pc' = pc
              ELSE parts' = parts /\ pc' = "done"
    /\ UNCHANGED <<data, times>>
    /\ UNCHANGED OtherVarsTok

NextTok == TokNew \/ TokNext

SpecTok == InitTok /\ [][NextTok]_vars

(***************************************************************************)
(* The words of a line, stated without the iterator: a word starts at a    *)
(* non-whitespace character that begins the line or follows whitespace,    *)
(* and runs to the last non-whitespace character before the next           *)
(* whitespace or the end.                                                  *)
(***************************************************************************)
WordStarts(s) ==
    {i \in 1..Len(s) :
        /\ ~IsAsciiWhitespace(s[i])
        /\ (i = 1 \/ IsAsciiWhitespace(s[i - 1]))}

WordCount(s) == Cardinality(WordStarts(s))

\* Where the k-th word starts (1 <= k <= WordCount(s)).
WordStart(s, k) ==
    CHOOSE i \in WordStarts(s) :
        Cardinality({j \in WordStarts(s) : j <= i}) = k

\* Where the word that starts at i ends.
WordEnd(s, i) ==
    CHOOSE e \in i..Len(s) :
        /\ \A j \in i..e : ~IsAsciiWhitespace(s[j])
        /\ (e = Len(s) \/ IsAsciiWhitespace(s[e + 1]))

Word(s, k) == SubSeq(s, WordStart(s, k), WordEnd(s, WordStart(s, k)))

IsTrimmed(s) ==
    s = <<>> \/ (~IsAsciiWhitespace(s[1]) /\ ~IsAsciiWhitespace(s[Len(s)]))

HowNowBrownCow ==
    <<"h", "o", "w", " ", "n", "o", "w", " ", "b", "r", "o", "w", "n", " ",
      "c", "o", "w">>

\* C8: for a trimmed line with at least N words, split_whitespace_n(line, N)
\* yields exactly N tokens: tokens 1..N-1 are the first N-1 words, and token N
\* is the whole rest of the line from the start of word N on, whitespace
\* inside it kept; the test's "how now brown cow" with N = 3 gives
\* "how", "now", "brown cow".
C8_TokenizerRule ==
    /\ (pc = "done" /\ times >= 1 /\ IsTrimmed(data) /\ WordCount(data) >= times)
         => /\ Len(parts) = times
            /\ \A k \in 1..(times - 1) :
                  /\ parts[k] = Word(data, k)
                  /\ \A j \in 1..Len(parts[k]) : ~IsAsciiWhitespace(parts[k][j])
            /\ parts[times] = SubSeq(data, WordStart(data, times), Len(data))
            /\ ~IsAsciiWhitespace(parts[times][1])
    /\ Collect(split_whitespace_n(HowNowBrownCow, 3))
         = <<SubSeq(HowNowBrownCow, 1, 3), SubSeq(HowNowBrownCow, 5, 7),
             SubSeq(HowNowBrownCow, 9, 17)>>

\* A line of three words split in two, the second token holding a tab between
\* two words.
C8_Witness ==
    /\ pc = "done"
    /\ times = 2
    /\ data = <<"a", " ", "b", "\t", "a">>
    /\ parts = <<<<"a">>, <<"b", "\t", "a">>>>

(***************************************************************************)
(* Parsing of the fields.                                                  *)
(***************************************************************************)
Digits == <<"0", "1", "2", "3", "4", "5", "6", "7", "8", "9">>

IsDigit(c) == \E i \in 1..10 : Digits[i] = c

DigitVal(c) == (CHOOSE i \in 1..10 : Digits[i] = c) - 1

RECURSIVE DecimalVal(_)
DecimalVal(tok) ==
    IF tok = <<>> THEN 0
    ELSE 10 * DecimalVal(Upto(tok, Len(tok) - 1)) + DigitVal(tok[Len(tok)])

\* str::parse::<f64> on the tokens the model draws: an optional minus sign and
\* one or more digits is the number; the empty token and a token with any
\* other character of the model's alphabets (letters) is an error.
ParseF64(tok) ==
    LET neg == tok # <<>> /\ tok[1] = "-"
        body == IF neg THEN From(tok, 1) ELSE tok
    IN  IF body # <<>> /\ \A i \in 1..Len(body) : IsDigit(body[i])
        THEN Ok(IF neg THEN 0 - DecimalVal(body) ELSE DecimalVal(body))
        ELSE Err("invalid float literal")

\* impl FromStr for FaceDir
FaceDir_from_str(tok) ==
    IF tok = <<"N">> THEN Ok("N")
    ELSE IF tok = <<"S">> THEN Ok("S")
    ELSE Err("invalid face direction")

\* impl FromStr for TurnDir
TurnDir_from_str(tok) ==
    IF tok = <<"E">> THEN Ok("E")
    ELSE IF tok = <<"W">> THEN Ok("W")
    ELSE Err("invalid turn direction")

(***************************************************************************)
(* bearing_to_azimuth, in arc seconds: deg + min / 60 + sec / 3600 degrees *)
(* is deg * 3600 + min * 60 + sec arc seconds.                             *)
(***************************************************************************)
ArcSec(degrees) == degrees * 3600

\* bearing_to_azimuth without the wrap of a negative value.
bearing_to_azimuth_NoWrap(face, deg, min, sec, turn) ==
    LET angle == deg * 3600 + min * 60 + sec
    IN  CASE face = "N" /\ turn = "E" -> 0 + angle
          [] face = "N" /\ turn = "W" -> 0 - angle
          [] face = "S" /\ turn = "E" -> ArcSec(180) - angle
          [] face = "S" /\ turn = "W" -> ArcSec(180) + angle

bearing_to_azimuth(face, deg, min, sec, turn) ==
    LET angle == deg * 3600 + min * 60 + sec
        raw == CASE face = "N" /\ turn = "E" -> 0 + angle
                 [] face = "N" /\ turn = "W" -> 0 - angle
                 [] face = "S" /\ turn = "E" -> ArcSec(180) - angle
                 [] face = "S" /\ turn = "W" -> ArcSec(180) + angle
    IN  IF raw < 0 THEN raw + ArcSec(360) ELSE raw

(***************************************************************************)
(* get_azimuth_distance.                                                   *)
(***************************************************************************)
\* dist_ft * 0.3048, in units of 1e-4 m.
FeetToMeters == 3048

\* The body of the loop over reader.lines(): the (az, dist, name) pushed for a
\* line, or the error the function returns.
AzDistLine(ln) ==
    LET t == CollectTuple(split_whitespace_n(Trim(ln), 7), 7) IN
    IF ~t.some
    THEN Err("failed to split bearing/distance line into parts")
    ELSE
    LET face == FaceDir_from_str(t.val[1])
        deg == ParseF64(t.val[2])
        min == ParseF64(t.val[3])
        sec == ParseF64(t.val[4])
        turn == TurnDir_from_str(t.val[5])
        dist_ft == ParseF64(t.val[6])
        name == t.val[7]
    IN  IF ~face.ok THEN Err("invalid face direction")
        ELSE IF ~deg.ok THEN Err("invalid degrees")
        ELSE IF ~min.ok THEN Err("invalid minutes")
        ELSE IF ~sec.ok THEN Err("invalid seconds")
        ELSE IF ~turn.ok THEN Err("invalid turn direction")
        ELSE IF ~dist_ft.ok THEN Err("invalid distance")
        ELSE Ok([az |-> bearing_to_azimuth(face.val, deg.val, min.val, sec.val,
                                           turn.val),
                 dist |-> dist_ft.val * FeetToMeters,
                 name |-> name])

\* A file that cannot be opened or read, and a file of the given content.
NoFile == [exists |-> FALSE]

File(content) == [exists |-> TRUE, content |-> content]

\* The loop over the lines: the first line in error ends it.
RECURSIVE AzDistLines(_, _)
AzDistLines(lines, acc) ==
    IF lines = <<>> THEN Ok(acc)
    ELSE LET r == AzDistLine(Head(lines))
         IN  IF r.ok THEN AzDistLines(Tail(lines), Append(acc, r.val))
             ELSE r

\* get_azimuth_distance on the parcel's bearing/distance file, given as its
\* lines.
get_azimuth_distance(file) ==
    IF ~file.exists THEN Err("failed to open")
    ELSE AzDistLines(file.content, <<>>)

(***************************************************************************)
(* Specification SpecAz: one call of bearing_to_azimuth on a bearing of    *)
(* the BearingRecord domain (whole degrees, minutes 0-59, seconds 0-60).   *)
(***************************************************************************)
MaxDeg == 360

MinValues == {0, 3, 30, 59}

SecValues == {0, 13, 30, 60}

OtherVarsAz ==
    <<data, times, iter, parts, line, result, start, az_dist, bounds, env,
      parcel_num, parcel_bounds, docs, exit_code, trace>>

InitAz ==
    /\ pc = "call"
    /\ bearing \in [face : {"N", "S"}, deg : 0..MaxDeg, min : MinValues,
                    sec : SecValues, turn : {"E", "W"}]
    /\ az = Unused
    /\ data = Unused /\ times = Unused /\ iter = Unused /\ parts = Unused
    /\ line = Unused /\ result = Unused
    /\ start = Unused /\ az_dist = Unused /\ bounds = Unused /\ env = Unused
    /\ parcel_num = Unused /\ parcel_bounds = Unused /\ docs = Unused
    /\ exit_code = Unused /\ trace = Unused

\* let az = bearing_to_azimuth(face, deg, min, sec, turn);
BearingToAzimuth ==
    /\ pc = "call"
    /\ az' = bearing_to_azimuth(bearing.face, bearing.deg, bearing.min,
                                bearing.sec, bearing.turn)
    /\ pc' = "done"
    /\ UNCHANGED bearing
    /\ UNCHANGED OtherVarsAz

NextAz == BearingToAzimuth

SpecAz == InitAz /\ [][NextAz]_vars

\* The angle of the bearing at hand, a = deg + min/60 + sec/3600, in arc seconds.
BearingAngle == bearing.deg * 3600 + bearing.min * 60 + bearing.sec

\* C5: for each (face, turn) and every angle of the BearingRecord domain,
\* bearing_to_azimuth returns an azimuth az with 0 <= az < 360.
C5_AzimuthRange ==
    pc = "done" => (0 <= az /\ az < ArcSec(360))

\* C6: bearing_to_azimuth returns a for (N,E), -a for (N,W), 180 - a for (S,E)
\* and 180 + a for (S,W), with 360 added once when that value is negative:
\* N 10 W gives 350 and S 78 03 13 E gives 180 - (78 + 3/60 + 13/3600).
C6_AzimuthRule ==
    /\ pc = "done" =>
         LET a == BearingAngle IN
         /\ (bearing.face = "N" /\ bearing.turn = "E") => az = a
         /\ (bearing.face = "N" /\ bearing.turn = "W" /\ a = 0) => az = 0
         /\ (bearing.face = "N" /\ bearing.turn = "W" /\ a > 0)
               => az = ArcSec(360) - a
         /\ (bearing.face = "S" /\ bearing.turn = "E" /\ a <= ArcSec(180))
               => az = ArcSec(180) - a
         /\ (bearing.face = "S" /\ bearing.turn = "E" /\ a > ArcSec(180))
               => az = ArcSec(540) - a
         /\ (bearing.face = "S" /\ bearing.turn = "W") => az = ArcSec(180) + a
    /\ (/\ pc = "done"
        /\ bearing = [face |-> "N", deg |-> 10, min |-> 0, sec |-> 0, turn |-> "W"])
          => az = ArcSec(350)
    /\ (/\ pc = "done"
        /\ bearing = [face |-> "S", deg |-> 78, min |-> 3, sec |-> 13, turn |-> "E"])
          => az = 648000 - (280800 + 180 + 13)

\* The bearing S 78 03 13 E of the example line, converted.
C6_Witness ==
    /\ pc = "done"
    /\ bearing = [face |-> "S", deg |-> 78, min |-> 3, sec |-> 13, turn |-> "E"]
    /\ az = 367007

(***************************************************************************)
(* Specification SpecLine: one pass of the loop of get_azimuth_distance    *)
(* over a line of up to MaxFields fields, optionally indented.             *)
(***************************************************************************)
MaxFields == 7

FieldTokens == {<<"N">>, <<"E">>, <<"1">>, <<"x">>}

RECURSIVE JoinFields(_)
JoinFields(fields) ==
    IF fields = <<>> THEN <<>>
    ELSE IF Len(fields) = 1 THEN fields[1]
    ELSE fields[1] \o <<" ">> \o JoinFields(Tail(fields))

OtherVarsLine ==
    <<data, times, iter, parts, bearing, az, start, bounds, env, parcel_num,
      parcel_bounds, docs, exit_code, trace>>

InitLine ==
    /\ pc = "read"
    /\ \E fields \in StringsUpTo(FieldTokens, MaxFields),
          indent \in {<<>>, <<" ">>} :
          line = indent \o JoinFields(fields)
    /\ az_dist = <<>>
    /\ result = Unused
    /\ data = Unused /\ times = Unused /\ iter = Unused /\ parts = Unused
    /\ bearing = Unused /\ az = Unused
    /\ start = Unused /\ bounds = Unused /\ env = Unused
    /\ parcel_num = Unused /\ parcel_bounds = Unused /\ docs = Unused
    /\ exit_code = Unused /\ trace = Unused

\* One pass of `for line in reader.lines()`: the triple is pushed, or the
\* function returns the error.
ReadLine ==
    /\ pc = "read"
    /\ LET r == AzDistLine(line)
       IN  /\ result' = r
           /\ az_dist' = IF r.ok THEN Append(az_dist, r.val) ELSE az_dist
           /\ pc' = IF r.ok THEN "pushed" ELSE "failed"
    /\ UNCHANGED line
    /\ UNCHANGED OtherVarsLine

NextLine == ReadLine

SpecLine == InitLine /\ [][NextLine]_vars

\* C7: a bearing/distance line of fewer than seven whitespace-delimited
\* fields (a blank line and a line of six valid fields without a label
\* included) makes get_azimuth_distance fail; no triple with a defaulted or
\* empty field is produced.
C7_MissingFieldRejected ==
    (pc # "read" /\ WordCount(line) < 7) => (pc = "failed" /\ az_dist = <<>>)

(***************************************************************************)
(* NamedPoint and calc_bounds.                                             *)
(***************************************************************************)
\* NamedPoint::new(geo::Point::new(x, y), name): x is the longitude, y the
\* latitude.
NamedPoint(x, y, name) == [point |-> [x |-> x, y |-> y], name |-> name]

Abs(v) == IF v < 0 THEN 0 - v ELSE v

\* 0.000001 degrees, in units of 1e-8 degrees.
Tolerance == 100

\* Coordinate units to the degree.
DegUnits == Tolerance * 1000000

\* geo's Point::geodesic_destination(az, dist), a library outside the
\* repository, stood in for by a walk on a flat grid: the distance (1e-4 m)
\* moves the point by 9e-6 degrees to the metre, rounded towards zero, along
\* each axis the azimuth (arc seconds, any value, taken modulo 360 degrees)
\* has a component on.
GeodesicDestination(point, azimuth, dist) ==
    LET a == azimuth % ArcSec(360)
        dx == IF a = 0 \/ a = ArcSec(180) THEN 0
              ELSE IF a < ArcSec(180) THEN 1 ELSE 0 - 1
        dy == IF a = ArcSec(90) \/ a = ArcSec(270) THEN 0
              ELSE IF a < ArcSec(90) \/ a > ArcSec(270) THEN 1 ELSE 0 - 1
        move == IF dist >= 0 THEN (dist * 9) \div 100
                ELSE 0 - (((0 - dist) * 9) \div 100)
    IN  [x |-> point.x + dx * move, y |-> point.y + dy * move]

\* WalkStep with every leg walked from the starting point (a star pattern).
WalkStep_FromOrigin(bnds, idx, leg) ==
    Append(bnds,
           [point |-> GeodesicDestination(bnds[1].point, leg.az, leg.dist),
            name |-> leg.name])

\* The body of the loop of calc_bounds for the leg of (0-based) index idx.
WalkStep(bnds, idx, leg) ==
    Append(bnds,
           [point |-> GeodesicDestination(bnds[idx + 1].point, leg.az, leg.dist),
            name |-> leg.name])

\* The loop of calc_bounds from the leg of index idx on.
RECURSIVE Walk(_, _, _)
Walk(bnds, legs, idx) ==
    IF idx >= Len(legs) THEN bnds
    ELSE Walk(WalkStep(bnds, idx, legs[idx + 1]), legs, idx + 1)

\* Closes with a difference of exactly the tolerance let through.
Closes_Inclusive(last, first) == Abs(last - first) <= Tolerance

\* The condition of each ensure!: (last - first).abs() < 0.000001
Closes(last, first) == Abs(last - first) < Tolerance

\* Pop with the first point removed instead of the last.
Pop_Front(bnds) == Tail(bnds)

\* Pop that removes nothing.
Pop_Nothing(bnds) == bnds

\* bounds.pop()
Pop(bnds) == Upto(bnds, Len(bnds) - 1)

\* ValidateClosure without the two ensure!.
ValidateClosure_Unchecked(bnds) == Ok(Pop(bnds))

\* calc_bounds from the end of its loop on: the two ensure!, the pop, Ok(bounds).
ValidateClosure(bnds) ==
    LET first == bnds[1]
        last == bnds[Len(bnds)]
    IN  IF ~Closes(last.point.x, first.point.x)
        THEN Err("x coordinate of last point doesn't match the first point")
        ELSE IF ~Closes(last.point.y, first.point.y)
        THEN Err("y coordinate of last point doesn't match the first point")
        ELSE Ok(Pop(bnds))

calc_bounds(st, legs) == ValidateClosure(Walk(<<st>>, legs, 0))

(***************************************************************************)
(* Specification SpecBounds: one call of calc_bounds, a step for each pass *)
(* of its loop and one for the validation that ends it.                    *)
(***************************************************************************)
MaxLegs == 3

AzValues == {ArcSec(0), ArcSec(90), ArcSec(180), ArcSec(270)}

\* Distances that move a point by 99, 100 and 110 units: 9.9e-7, 1e-6 and
\* 1.1e-6 degrees.
DistValues == {1100, 1112, 1223}

Labels == <<"A", "B", "C", "D", "E", "F">>

StartPoints == {NamedPoint(0, 0, "P"), NamedPoint(0 - DegUnits, 2 * DegUnits, "P")}

\* The lists of up to MaxLegs legs, the leg of index i labelled Labels[i + 1].
LegLists ==
    UNION {{[i \in 1..n |-> [az |-> f[i][1], dist |-> f[i][2], name |-> Labels[i]]] :
               f \in [1..n -> AzValues \X DistValues]} : n \in 0..MaxLegs}

OtherVarsBounds ==
    <<data, times, iter, parts, line, bearing, az, env, parcel_num,
      parcel_bounds, docs, exit_code, trace>>

InitBounds ==
    /\ pc = "walk"
    /\ start \in StartPoints
    /\ az_dist \in LegLists
    /\ bounds = <<start>>
    /\ result = Unused
    /\ data = Unused /\ times = Unused /\ iter = Unused /\ parts = Unused
    /\ line = Unused /\ bearing = Unused /\ az = Unused /\ env = Unused
    /\ parcel_num = Unused /\ parcel_bounds = Unused /\ docs = Unused
    /\ exit_code = Unused /\ trace = Unused

\* One pass of `for (idx, (az, dist, name)) in az_dist.into_iter().enumerate()`.
WalkLeg ==
    /\ pc = "walk"
    /\ Len(bounds) - 1 < Len(az_dist)
    /\ LET idx == Len(bounds) - 1
       IN  bounds' = WalkStep(bounds, idx, az_dist[idx + 1])
    /\ UNCHANGED <<pc, start, az_dist, result>>
    /\ UNCHANGED OtherVarsBounds

\* The loop is over: the closure is validated, and the trimmed bounds or the
\* error returned (the vector is dropped with an error).
Validate ==
    /\ pc = "walk"
    /\ Len(bounds) - 1 = Len(az_dist)
    /\ LET r == ValidateClosure(bounds)
       IN  /\ result' = r
           /\ bounds' = IF r.ok THEN r.val ELSE <<>>
           /\ pc' = IF r.ok THEN "accepted" ELSE "rejected"
    /\ UNCHANGED <<start, az_dist>>
    /\ UNCHANGED OtherVarsBounds

NextBounds == WalkLeg \/ Validate

SpecBounds == InitBounds /\ [][NextBounds]_vars

North == ArcSec(0)

East == ArcSec(90)

South == ArcSec(180)

West == ArcSec(270)

Leg(azimuth, dist, name) == [az |-> azimuth, dist |-> dist, name |-> name]

Origin == NamedPoint(0, 0, "P")

\* C1: the walked sequence is rejected with an error exactly when the final
\* point differs from the starting point by 1e-6 degrees or more on the
\* longitude or on the latitude, each axis on its own (9.9e-7 on both axes is
\* accepted; exactly 1e-6, or 1.1e-6, on a single axis is rejected), and a
\* rejected traverse returns no point sequence.
C1_ClosureValidation ==
    /\ [](pc # "walk" =>
            /\ az_dist = <<Leg(North, 1100, "A"), Leg(East, 1100, "B")>>
                  => pc = "accepted"
            /\ az_dist = <<Leg(East, 1112, "A")>> => pc = "rejected"
            /\ az_dist = <<Leg(North, 1112, "A")>> => pc = "rejected"
            /\ az_dist = <<Leg(West, 1223, "A")>> => pc = "rejected"
            /\ az_dist = <<Leg(South, 1223, "A")>> => pc = "rejected")
    /\ [][(pc = "walk" /\ pc' # "walk") =>
            LET first == bounds[1]
                last == bounds[Len(bounds)]
                off == \/ Abs(last.point.x - first.point.x) >= Tolerance
                       \/ Abs(last.point.y - first.point.y) >= Tolerance
            IN  /\ (pc' = "rejected") <=> off
                /\ (pc' = "accepted") <=> ~off
                /\ result'.ok <=> ~off
                /\ off => (DOMAIN result' = {"ok", "err"} /\ bounds' = <<>>)]_vars

\* A single leg east that moves the longitude by exactly 1e-6 degrees and
\* leaves the latitude alone is rejected.
C1_Witness ==
    /\ pc = "rejected"
    /\ az_dist = <<Leg(East, 1112, "A")>>
    /\ ~result.ok

\* C2 as claimed: the last point of every sequence calc_bounds returns is
\* neither the same element as the first nor within the closure tolerance of
\* the first on both axes.
C2_LastNotDuplicateOfFirst ==
    (pc = "accepted" /\ bounds # <<>>) =>
        LET first == bounds[1]
            last == bounds[Len(bounds)]
        IN  /\ Len(bounds) > 1
            /\ ~(/\ Abs(last.point.x - first.point.x) < Tolerance
                 /\ Abs(last.point.y - first.point.y) < Tolerance)

\* C2 as amended: for an accepted traverse of n >= 2 legs, the last point
\* returned is the destination of leg n-1 (0-based n-2), an element other than
\* the first; the closing point, the destination of the last leg, is not
\* returned.
C2_ClosingPointDropped ==
    LET n == Len(az_dist) IN
    (pc = "accepted" /\ n >= 2) =>
        /\ Len(bounds) >= 2
        /\ bounds[Len(bounds)].name = az_dist[n - 1].name
        /\ bounds[Len(bounds)].name # az_dist[n].name
        /\ bounds[Len(bounds)].name # start.name
        /\ \A i \in 1..Len(bounds) : bounds[i].name # az_dist[n].name

\* Out and back: the point returned last is 9.9e-7 degrees north of the
\* first, within the tolerance of it.
C2_Witness ==
    /\ pc = "accepted"
    /\ az_dist = <<Leg(North, 1100, "A"), Leg(South, 1100, "B")>>
    /\ Len(bounds) = 2
    /\ bounds[2].point.y - bounds[1].point.y = 99

\* C3: for an accepted traverse of n legs, calc_bounds returns the walked
\* sequence without its final point: n points in walk order (n + 1 computed,
\* one trimmed), the starting point first.
C3_ClosureTrimming ==
    [][(pc = "walk" /\ pc' = "accepted") =>
          LET n == Len(az_dist) IN
          /\ Len(bounds) = n + 1
          /\ Len(bounds') = n
          /\ \A i \in 1..n : bounds'[i] = bounds[i]
          /\ n >= 1 => bounds'[1] = start
          /\ result'.val = bounds']_vars

\* Three legs that close within the tolerance: four points walked, three
\* returned.
C3_Witness ==
    /\ pc = "accepted"
    /\ az_dist = <<Leg(North, 1100, "A"), Leg(East, 1100, "B"),
                   Leg(South, 1100, "C")>>
    /\ Len(bounds) = 3
    /\ bounds[1] = start
    /\ bounds[3].name = "B"

\* C4: the point at position i + 1 of the walked sequence is the geodesic
\* destination from the point at position i (the one just before it, not the
\* origin) by leg i's azimuth and distance, under leg i's label; position 0 is
\* the starting point under its own label.
C4_CumulativeWalk ==
    (pc \in {"walk", "accepted"} /\ bounds # <<>>) =>
        /\ bounds[1] = start
        /\ \A i \in 1..(Len(bounds) - 1) :
              /\ bounds[i + 1].point
                   = GeodesicDestination(bounds[i].point, az_dist[i].az,
                                         az_dist[i].dist)
              /\ bounds[i + 1].name = az_dist[i].name

\* East, then north: the second destination is north of the first
\* destination, not north of the origin.
C4_Witness ==
    /\ pc = "walk"
    /\ start = Origin
    /\ Len(az_dist) = 2
    /\ az_dist[1] = Leg(East, 1100, "A")
    /\ az_dist[2] = Leg(North, 1112, "B")
    /\ Len(bounds) = 3
    /\ bounds[3] = NamedPoint(99, 100, "B")

(***************************************************************************)
(* get_starting_location.                                                  *)
(***************************************************************************)
\* get_starting_location on the parcel's starting-location file, given as its
\* text; latitude and longitude are whole degrees in the files of the model.
get_starting_location(file) ==
    IF ~file.exists THEN Err("failed to read")
    ELSE
    LET t == CollectTuple(split_whitespace_n(Trim(file.content), 3), 3) IN
    IF ~t.some THEN Err("failed to split starting location line into parts")
    ELSE
    LET lat == ParseF64(t.val[1])
        lon == ParseF64(t.val[2])
        name == t.val[3]
    IN  IF ~lat.ok THEN Err("failed to parse latitude")
        ELSE IF ~lon.ok THEN Err("failed to parse longitude")
        ELSE Ok(NamedPoint(lon.val * DegUnits, lat.val * DegUnits, name))

(***************************************************************************)
(* Specification Spec: main and run, a step for each call run makes. The   *)
(* environment is the data directory, the two files of each parcel and the *)
(* outcome of each write of a document.                                    *)
(***************************************************************************)
\* for parcel_num in 1..=2
NumParcels == 2

StartFiles ==
    {NoFile,
     File(<<" ">> \o JoinFields(<<<<"1">>, <<"-", "2">>, <<"P", " ", "1">>>>)),
     File(JoinFields(<<<<"x">>, <<"0">>, <<"P">>>>))}

BearingLine(face, deg, turn, dist_ft, name) ==
    JoinFields(<<face, deg, <<"0">>, <<"0">>, turn, dist_ft, name>>)

\* Four legs of one foot: north, east, south, west.
SquareFile ==
    << BearingLine(<<"N">>, <<"0">>, <<"E">>, <<"1">>, <<"A">>),
       BearingLine(<<"N">>, <<"9", "0">>, <<"E">>, <<"1">>, <<"B">>),
       BearingLine(<<"S">>, <<"0">>, <<"E">>, <<"1">>, <<"C", " ", "3">>),
       BearingLine(<<"N">>, <<"9", "0">>, <<"W">>, <<"1">>, <<"D">>) >>

\* Two legs that end a foot east of the start.
OpenFile ==
    << BearingLine(<<"N">>, <<"0">>, <<"E">>, <<"1">>, <<"A">>),
       BearingLine(<<"S">>, <<"4", "5">>, <<"E">>, <<"1">>, <<"B">>) >>

\* A second line of five fields.
ShortLineFile ==
    << BearingLine(<<"N">>, <<"0">>, <<"E">>, <<"1">>, <<"A">>),
       JoinFields(<<<<"S">>, <<"7", "8">>, <<"0">>, <<"1">>, <<"E">>>>) >>

BearingFiles ==
    {NoFile, File(<<>>), File(SquareFile), File(OpenFile), File(ShortLineFile)}

\* What a write of a document can come to: written; File::create fails;
\* a write fails and the error is returned; the last flush, made when the
\* BufWriter is dropped, fails, which the function does not see.
IoOutcomes == {"written", "create failed", "write failed", "flush lost"}

Parcels == 1..NumParcels

\* The document a write leaves behind, if any, and what the function returns.
WriteDocument(name, parcels, traverses, outcome) ==
    [doc |-> IF outcome = "create failed" THEN {}
             ELSE {[name |-> name, parcels |-> parcels, traverses |-> traverses,
                    complete |-> (outcome = "written")]},
     ret |-> IF outcome \in {"written", "flush lost"} THEN Ok("()")
             ELSE Err("io error")]

\* write_parcel_points_kml(parcel_num, &bounds)
write_parcel_points_kml(num, bnds, outcome) ==
    WriteDocument(<<"points", num>>, <<num>>, <<bnds>>, outcome)

\* write_survey_outline_kml(&parcel_bounds): parcel idx + 1 for each entry.
write_survey_outline_kml(pbounds, outcome) ==
    WriteDocument(<<"outline", 0>>, [i \in 1..Len(pbounds) |-> i], pbounds, outcome)

\* Question with the result of the last call of run ignored.
Question_LastIgnored(r, next) ==
    IF r.ok \/ next = "return_ok" THEN next ELSE "return_err"

\* The `?` after a call of run: on Ok the run goes on at `next`, on Err it
\* returns the error.
Question(r, next) == IF r.ok THEN next ELSE "return_err"

Executed(step, num, r) == Append(trace, [step |-> step, parcel |-> num, ok |-> r.ok])

OtherVarsRun == <<data, times, iter, parts, line, result, bearing, az>>

\* The exit status of a process that has not exited.
NotExited == 0 - 1

Init ==
    /\ pc = "ensure_dir"
    /\ env \in [data_dir_exists : BOOLEAN,
                start_file : [Parcels -> StartFiles],
                bearing_file : [Parcels -> BearingFiles]]
    /\ parcel_num = 0
    /\ start = NamedPoint(0, 0, <<>>) /\ az_dist = <<>> /\ bounds = <<>>
    /\ result = Unused
    /\ parcel_bounds = <<>>
    /\ docs = {}
    /\ exit_code = NotExited
    /\ trace = <<>>
    /\ data = Unused /\ times = Unused /\ iter = Unused /\ parts = Unused
    /\ line = Unused /\ bearing = Unused /\ az = Unused

\* ensure!(args.data_dir.exists(), ...); let mut parcel_bounds = Vec::new();
EnsureDataDir ==
    /\ pc = "ensure_dir"
    /\ LET r == IF env.data_dir_exists THEN Ok("()")
                ELSE Err("specified data directory does not exist")
       IN  /\ trace' = Executed("ensure_dir", 0, r)
           /\ pc' = Question(r, "get_starting_location")
           /\ parcel_num' = IF r.ok THEN 1 ELSE parcel_num
    /\ UNCHANGED <<env, start, az_dist, bounds, parcel_bounds, docs, exit_code>>
    /\ UNCHANGED OtherVarsRun

\* let start = get_starting_location(args.data_dir.as_path(), parcel_num)?;
GetStartingLocation ==
    /\ pc = "get_starting_location"
    /\ LET r == get_starting_location(env.start_file[parcel_num])
       IN  /\ trace' = Executed("get_starting_location", parcel_num, r)
           /\ start' = IF r.ok THEN r.val ELSE start
           /\ pc' = Question(r, "get_azimuth_distance")
    /\ UNCHANGED <<env, parcel_num, az_dist, bounds, parcel_bounds, docs, exit_code>>
    /\ UNCHANGED OtherVarsRun

\* let az_dist = get_azimuth_distance(&args.data_dir, parcel_num)?;
GetAzimuthDistance ==
    /\ pc = "get_azimuth_distance"
    /\ LET r == get_azimuth_distance(env.bearing_file[parcel_num])
       IN  /\ trace' = Executed("get_azimuth_distance", parcel_num, r)
           /\ az_dist' = IF r.ok THEN r.val ELSE az_dist
           /\ pc' = Question(r, "calc_bounds")
    /\ UNCHANGED <<env, parcel_num, start, bounds, parcel_bounds, docs, exit_code>>
    /\ UNCHANGED OtherVarsRun

\* let bounds = calc_bounds(start, az_dist)?;
CalcBounds ==
    /\ pc = "calc_bounds"
    /\ LET r == calc_bounds(start, az_dist)
       IN  /\ trace' = Executed("calc_bounds", parcel_num, r)
           /\ bounds' = IF r.ok THEN r.val ELSE bounds
           /\ pc' = Question(r, "write_parcel_points_kml")
    /\ UNCHANGED <<env, parcel_num, start, az_dist, parcel_bounds, docs, exit_code>>
    /\ UNCHANGED OtherVarsRun

\* write_parcel_points_kml(parcel_num, &bounds)?; parcel_bounds.push(bounds);
\* and the loop goes to the next parcel or ends.
WriteParcelPoints ==
    /\ pc = "write_parcel_points_kml"
    /\ \E outcome \in IoOutcomes :
          LET w == write_parcel_points_kml(parcel_num, bounds, outcome)
              more == parcel_num < NumParcels
          IN  /\ trace' = Executed("write_parcel_points_kml", parcel_num, w.ret)
              /\ docs' = {d \in docs : d.name # <<"points", parcel_num>>} \cup w.doc
              /\ parcel_bounds' = IF w.ret.ok THEN Append(parcel_bounds, bounds)
                                  ELSE parcel_bounds
              /\ parcel_num' = IF w.ret.ok /\ more THEN parcel_num + 1
                               ELSE parcel_num
              /\ pc' = Question(w.ret, IF more THEN "get_starting_location"
                                       ELSE "write_survey_outline_kml")
    /\ UNCHANGED <<env, start, az_dist, bounds, exit_code>>
    /\ UNCHANGED OtherVarsRun

\* write_survey_outline_kml(&parcel_bounds)?; Ok(())
WriteSurveyOutline ==
    /\ pc = "write_survey_outline_kml"
    /\ \E outcome \in IoOutcomes :
          LET w == write_survey_outline_kml(parcel_bounds, outcome)
          IN  /\ trace' = Executed("write_survey_outline_kml", 0, w.ret)
              /\ docs' = {d \in docs : d.name # <<"outline", 0>>} \cup w.doc
              /\ pc' = Question(w.ret, "return_ok")
    /\ UNCHANGED <<env, parcel_num, start, az_dist, bounds, parcel_bounds, exit_code>>
    /\ UNCHANGED OtherVarsRun

\* main: run() returned; an error is logged and the process exits with 1.
MainExit ==
    /\ pc \in {"return_ok", "return_err"}
    /\ exit_code' = IF pc = "return_err" THEN 1 ELSE 0
    /\ pc' = "exited"
    /\ UNCHANGED <<env, parcel_num, start, az_dist, bounds, parcel_bounds,
                   docs, trace>>
    /\ UNCHANGED OtherVarsRun

Next ==
    \/ EnsureDataDir
    \/ GetStartingLocation
    \/ GetAzimuthDistance
    \/ CalcBounds
    \/ WriteParcelPoints
    \/ WriteSurveyOutline
    \/ MainExit

Spec == Init /\ [][Next]_vars

\* The program is one sequential process: once run has returned, main goes on
\* to its end.
FairSpec == Spec /\ WF_vars(MainExit)

\* The steps of a run in which nothing fails, in order.
AllSteps ==
    <<[step |-> "ensure_dir", parcel |-> 0, ok |-> TRUE]>>
    \o [i \in 1..(4 * NumParcels) |->
          [step |-> <<"get_starting_location", "get_azimuth_distance",
                      "calc_bounds", "write_parcel_points_kml">>[((i - 1) % 4) + 1],
           parcel |-> ((i - 1) \div 4) + 1,
           ok |-> TRUE]]
    \o <<[step |-> "write_survey_outline_kml", parcel |-> 0, ok |-> TRUE]>>

Failed == \E i \in 1..Len(trace) : ~trace[i].ok

\* The parcel's walk, from its two files, closes within the tolerance on both
\* axes.
ParcelCloses(p) ==
    LET st == get_starting_location(env.start_file[p])
        legs == get_azimuth_distance(env.bearing_file[p])
    IN  /\ st.ok
        /\ legs.ok
        /\ LET walked == Walk(<<st.val>>, legs.val, 0)
           IN  /\ Abs(walked[Len(walked)].point.x - walked[1].point.x) < Tolerance
               /\ Abs(walked[Len(walked)].point.y - walked[1].point.y) < Tolerance

\* C9: a parcel's traverse is in a written document (its point-marker
\* document or the boundary-polygon document) only after its closure
\* validation succeeded; a parcel whose reading, walking or closure validation
\* failed is in no written document.
C9_NoOutputForFailingParcel ==
    /\ \A d \in docs : \A k \in 1..Len(d.parcels) :
          LET p == d.parcels[k] IN
          /\ ParcelCloses(p)
          /\ \E i \in 1..Len(trace) :
                trace[i] = [step |-> "calc_bounds", parcel |-> p, ok |-> TRUE]
          /\ d.traverses[k]
               = Pop(Walk(<<get_starting_location(env.start_file[p]).val>>,
                          get_azimuth_distance(env.bearing_file[p]).val, 0))
    /\ \A i \in 1..Len(trace) :
          (/\ ~trace[i].ok
           /\ trace[i].step \in {"get_starting_location", "get_azimuth_distance",
                                 "calc_bounds"})
             => \A d \in docs : \A k \in 1..Len(d.parcels) :
                   d.parcels[k] # trace[i].parcel

\* Parcel 1 is written; parcel 2 does not close, and the run ends with the
\* one document of parcel 1.
C9_Witness ==
    /\ pc = "exited"
    /\ env.bearing_file[2] = File(OpenFile)
    /\ trace[Len(trace)] = [step |-> "calc_bounds", parcel |-> 2, ok |-> FALSE]
    /\ \E d \in docs : d.name = <<"points", 1>> /\ d.complete
    /\ Cardinality(docs) = 1

\* C10: once a step returns an error, no later step of that parcel or of a
\* later parcel is executed, no further document is written and the run ends
\* with a non-zero exit status; the run ends with success only if every step
\* of every parcel and the final boundary document succeeded.
C10_FirstErrorAborts ==
    /\ [](/\ \A i \in 1..(Len(trace) - 1) : trace[i].ok
          /\ Failed => pc \in {"return_err", "exited"}
          /\ (pc = "exited" /\ exit_code = 0) => trace = AllSteps
          /\ (pc = "exited" /\ Failed) => exit_code = 1)
    /\ [][Failed => (/\ pc = "return_err"
                     /\ pc' = "exited"
                     /\ exit_code' = 1
                     /\ docs' = docs
                     /\ trace' = trace
                     /\ parcel_bounds' = parcel_bounds)]_vars
    /\ Failed ~> (pc = "exited" /\ exit_code = 1)

\* The bearing file of parcel 1 has a line in error: the run ends with status
\* 1 after three steps and no document.
C10_Witness ==
    /\ pc = "exited"
    /\ exit_code = 1
    /\ env.bearing_file[1] = File(ShortLineFile)
    /\ Len(trace) = 3
    /\ trace[3] = [step |-> "get_azimuth_distance", parcel |-> 1, ok |-> FALSE]
    /\ docs = {}

====
